---------------------------- MODULE Spec2Model ----------------------------
(***************************************************************************)
(* State-machine model of slang::RSBackend (slang_rs_backend.cpp): the     *)
(* declaration guard (HandleTopLevelDecl), the unit validator              *)
(* (HandleTranslationUnitPre) and the export descriptor emitter with its   *)
(* trampoline synthesizer (HandleTranslationUnitPost).                     *)
(*                                                                         *)
(* Strings of the program are TLA+ strings; an LLVM named-metadata list is *)
(* a sequence of nodes and a node is a sequence of strings.                *)
(***************************************************************************)
EXTENDS Integers, Sequences, FiniteSets, TLC

VARIABLES
  mAllowRSPrefix,  \* RSBackend::mAllowRSPrefix (constructor argument)
  version,         \* what mContext->getVersion() returns
  processExport,   \* what mContext->processExport() returns
  tuDecls,         \* the declarations of the TranslationUnitDecl, in order
  phase,           \* "parsing" -> "parsed" (Pre has run) -> "emitted" (Post has run)
  diags,           \* diagnostics reported through mDiagEngine, in order
  visited,         \* function declarations handed to mRefCount.Visit, in order
  codegen,         \* declaration groups forwarded to Backend::HandleTopLevelDecl
  export_vars,     \* mContext->export_vars_begin() .. export_vars_end()
  export_funcs,    \* mContext->export_funcs_begin() .. export_funcs_end()
  export_foreach,  \* mContext->export_foreach_begin() .. export_foreach_end()
  export_types,    \* mContext->export_types_begin() .. export_types_end()
  namedMD,         \* the named metadata of llvm::Module M: name -> list of nodes
  functions,       \* the function table of llvm::Module M: name -> function
  handles,         \* mExportVarMetadata, mExportFuncMetadata, ... (cached lists)
  errs,            \* what the pass printed on stderr, in order
  aborted,         \* a slangAssert failed or the compiler crashed
  postRuns         \* number of HandleTranslationUnitPost calls so far

vars == << mAllowRSPrefix, version, processExport, tuDecls, phase, diags, visited,
           codegen, export_vars, export_funcs, export_foreach, export_types,
           namedMD, functions, handles, errs, aborted, postRuns >>

frontVars == << tuDecls, diags, visited, codegen >>
registryVars == << export_vars, export_funcs, export_foreach, export_types >>
moduleVars == << namedMD, functions, handles, errs >>

--------------------------------------------------------------------------
(* Bounds of the model *)

\* declarations of one translation unit
MaxDecls == 2
\* entries of the export registry (variables + functions + kernels + types)
MaxExports == 2
\* parameters of an exported function, arguments of a native function
MaxParams == 2
\* fields of an exported record type
MaxFields == 2
\* calls of HandleTranslationUnitPost on the same module
MaxPostRuns == 2

--------------------------------------------------------------------------
(* Generic helpers *)

RECURSIVE Flatten(_)
Flatten(ss) == IF ss = << >> THEN << >> ELSE Head(ss) \o Flatten(Tail(ss))

IsPrefixOf(s, t) == Len(s) <= Len(t) /\ SubSeq(t, 1, Len(s)) = s

\* llvm::StringRef::startswith
startswith(s, prefix) ==
  Len(s) >= Len(prefix) /\ SubSeq(s, 1, Len(prefix)) = prefix

Digit(d) ==
  CASE d = 0 -> "0" [] d = 1 -> "1" [] d = 2 -> "2" [] d = 3 -> "3" [] d = 4 -> "4"
    [] d = 5 -> "5" [] d = 6 -> "6" [] d = 7 -> "7" [] d = 8 -> "8" [] d = 9 -> "9"

RECURSIVE UDigits(_)
UDigits(n) == IF n < 10 THEN Digit(n) ELSE UDigits(n \div 10) \o Digit(n % 10)

\* llvm::utostr_32: the argument is converted to uint32_t first, so a negative
\* int x is printed as 2^32 + x = 10 * 429496729 + (6 + x)
utostr_32(x) ==
  IF x >= 0 THEN UDigits(x)
  ELSE UDigits(429496729 + ((x + 6) \div 10)) \o Digit((x + 6) % 10)

\* llvm::itostr: signed decimal
itostr(x) == IF x < 0 THEN "-" \o UDigits(0 - x) ELSE UDigits(x)

--------------------------------------------------------------------------
(* The declarations a translation unit is made of *)

FuncDecl(n, g, b, h) ==
  [kind |-> "Function", name |-> n, isGlobal |-> g, hasBody |-> b, inRSHeader |-> h,
   externalLinkage |-> g, normalizeOK |-> TRUE, exportValid |-> TRUE]

VarDecl(n, e, nok, ok) ==
  [kind |-> "Var", name |-> n, isGlobal |-> e, hasBody |-> FALSE, inRSHeader |-> FALSE,
   externalLinkage |-> e, normalizeOK |-> nok, exportValid |-> ok]

OtherDecl ==
  [kind |-> "Typedef", name |-> "T", isGlobal |-> FALSE, hasBody |-> FALSE,
   inRSHeader |-> FALSE, externalLinkage |-> FALSE, normalizeOK |-> TRUE,
   exportValid |-> TRUE]

FunctionDecls ==
  { FuncDecl("rsFoo", TRUE, TRUE, FALSE), FuncDecl("rsFoo", TRUE, TRUE, TRUE),
    FuncDecl("rsFoo", FALSE, TRUE, FALSE), FuncDecl("foo", TRUE, TRUE, FALSE),
    FuncDecl("foo", FALSE, TRUE, FALSE), FuncDecl("foo", TRUE, FALSE, FALSE),
    FuncDecl("foo", FALSE, TRUE, TRUE), FuncDecl("r", TRUE, TRUE, FALSE) }

VarDecls ==
  { VarDecl("g", TRUE, TRUE, TRUE), VarDecl("g", TRUE, FALSE, TRUE),
    VarDecl("s", FALSE, TRUE, FALSE) }

Decls == FunctionDecls \cup VarDecls \cup { OtherDecl }

\* the clang::DeclGroupRefs of at most n sibling declarations out of ds
DeclGroups(ds, n) == UNION { [1..k -> ds] : k \in 1..n }

\* what mRefCount.CreateStaticGlobalDtor() returns: NULL or a function
\* declaration; as DeclGroupRef(FD) it is a group of one
DtorChoices ==
  { << >> } \cup { << FuncDecl(".rs.dtor", g, TRUE, FALSE) >> : g \in BOOLEAN }

IsFunctionDecl(d) == d.kind = "Function"

--------------------------------------------------------------------------
(* RSBackend::AnnotateFunction and RSBackend::HandleTopLevelDecl *)

\* the guard of AnnotateFunction: FD && FD->hasBody() &&
\* !SlangRS::IsFunctionInRSHeaderFile(FD, mSourceMgr)
Annotates(d) == IsFunctionDecl(d) /\ d.hasBody /\ ~d.inRSHeader

\* AnnotateFunction(FD): mRefCount.Init(); mRefCount.Visit(FD->getBody())
AnnotateFunction(vis, d) == IF Annotates(d) THEN Append(vis, d) ELSE vis

NamingConflict(d) == [kind |-> "rs-prefix", name |-> d.name]
MissingVersion == [kind |-> "missing-version", name |-> ""]
BadVersion == [kind |-> "bad-version", name |-> ""]

\* one iteration of the first loop of HandleTopLevelDecl
ReportsPrefixIgnoringHeader(d) == IsFunctionDecl(d) /\ startswith(d.name, "rs")
ReportsPrefix(d) ==
  IsFunctionDecl(d) /\ startswith(d.name, "rs") /\ ~d.inRSHeader

\* the first loop of HandleTopLevelDecl: the prefix check of every function
\* declaration of the group, skipped as a whole when mAllowRSPrefix
RECURSIVE CheckPrefix(_, _, _)
CheckPrefix(dg, D, i) ==
  IF i > Len(D) THEN dg
  ELSE CheckPrefix(IF ReportsPrefix(D[i]) THEN Append(dg, NamingConflict(D[i])) ELSE dg,
                   D, i + 1)

\* the second loop of HandleTopLevelDecl: FD && FD->isGlobal() => AnnotateFunction
RECURSIVE AnnotateGlobals(_, _, _)
AnnotateGlobals(vis, D, i) ==
  IF i > Len(D) THEN vis
  ELSE AnnotateGlobals(IF IsFunctionDecl(D[i]) /\ D[i].isGlobal
                       THEN AnnotateFunction(vis, D[i]) ELSE vis,
                       D, i + 1)

\* the effect of HandleTopLevelDecl(D) on (diags, visited, codegen)
TopLevelDecl(st, D) ==
  [diags   |-> IF ~mAllowRSPrefix THEN CheckPrefix(st.diags, D, 1) ELSE st.diags,
   visited |-> AnnotateGlobals(st.visited, D, 1),
   codegen |-> Append(st.codegen, D)]

FrontState == [diags |-> diags, visited |-> visited, codegen |-> codegen]

\* the parser adds the group's declarations to the translation unit and calls
\* the consumer's HandleTopLevelDecl with the group
HandleTopLevelDecl(D) ==
  /\ phase = "parsing"
  /\ Len(tuDecls) + Len(D) <= MaxDecls
  /\ LET st == TopLevelDecl(FrontState, D) IN
       /\ diags' = st.diags
       /\ visited' = st.visited
       /\ codegen' = st.codegen
  /\ tuDecls' = tuDecls \o D
  /\ UNCHANGED << mAllowRSPrefix, version, processExport, phase, registryVars,
                  moduleVars, aborted, postRuns >>

--------------------------------------------------------------------------
(* ValidateVarDecl, ValidateASTContext, RSBackend::HandleTranslationUnitPre *)

\* valid = NormalizeType(...) when the linkage is external;
\* valid &= RSExportType::ValidateVarDecl(VD)
ValidateVarDecl(d) ==
  (d.externalLinkage => d.normalizeOK) /\ d.exportValid

\* every VarDecl of the translation unit is validated; one failure fails the unit
ValidateAlways(ds) == TRUE
ValidateASTContext(ds) ==
  \A i \in 1..Len(ds) : ds[i].kind = "Var" => ValidateVarDecl(ds[i])

\* version == 0: missing pragma; version > 1: unsupported; 1: accepted
VersionCheckAlsoOne(dg, v) ==
  IF v = 0 \/ v = 1 THEN Append(dg, MissingVersion)
  ELSE IF v > 1 THEN Append(dg, BadVersion) ELSE dg
VersionCheck(dg, v) ==
  IF v = 0 THEN Append(dg, MissingVersion)
  ELSE IF v > 1 THEN Append(dg, BadVersion) ELSE dg

\* the last loop of HandleTranslationUnitPre: FD && !FD->isGlobal() => AnnotateFunction
RECURSIVE AnnotateStatics(_, _, _)
AnnotateStatics(vis, ds, i) ==
  IF i > Len(ds) THEN vis
  ELSE AnnotateStatics(IF IsFunctionDecl(ds[i]) /\ ~ds[i].isGlobal
                       THEN AnnotateFunction(vis, ds[i]) ELSE vis,
                       ds, i + 1)

\* the effect of HandleTranslationUnitPre on (diags, visited, codegen);
\* dtor is what CreateStaticGlobalDtor returned
TranslationUnitPre(st, dtor) ==
  IF ~ValidateASTContext(tuDecls) THEN st
  ELSE LET st1 == [st EXCEPT !.diags = VersionCheck(st.diags, version)]
           st2 == IF dtor # << >> THEN TopLevelDecl(st1, dtor) ELSE st1
       IN [st2 EXCEPT !.visited = AnnotateStatics(st2.visited, tuDecls, 1)]

HandleTranslationUnitPre(dtor) ==
  /\ phase = "parsing"
  /\ LET st == TranslationUnitPre(FrontState, dtor) IN
       /\ diags' = st.diags
       /\ visited' = st.visited
       /\ codegen' = st.codegen
  /\ phase' = "parsed"
  /\ UNCHANGED << mAllowRSPrefix, version, processExport, tuDecls, registryVars,
                  moduleVars, aborted, postRuns >>

--------------------------------------------------------------------------
(* The export registry read through mContext: exported types *)

Ty(c, n, t, k, o, p, d, fs) ==
  [class |-> c, name |-> n, type |-> t, kind |-> k, isRSObject |-> o,
   pointee |-> p, dim |-> d, fields |-> fs]

\* RSExportPrimitiveType::DataTypeRSMatrix2x2 and ::DataKindUser
DataTypeRSMatrix2x2 == 15
DataKindUser == 0

PrimInt == Ty("Primitive", "int", 5, 0, FALSE, "", 0, << >>)
PrimPixel == Ty("Primitive", "uchar", 7, 2, FALSE, "", 0, << >>)
PrimAlloc == Ty("Primitive", "rs_allocation", 20, 0, TRUE, "", 0, << >>)
PtrInt == Ty("Pointer", "int_ptr", 0, -1, FALSE, "int", 0, << >>)
Mat(d) == Ty("Matrix", "rs_matrix" \o Digit(d) \o "x" \o Digit(d), 0, -1, FALSE, "", d, << >>)
Vec == Ty("Vector", "uchar4", 7, 5, FALSE, "", 0, << >>)
Arr == Ty("ConstantArray", "int[2]", 0, -1, FALSE, "", 0, << >>)
Rec(n, fs) == Ty("Record", n, 0, -1, FALSE, "", 0, fs)

Field(n, t) == [name |-> n, type |-> t]

FieldPool ==
  << Field("x", PrimInt), Field("a", PrimPixel), Field("c", Vec),
     Field("next", PtrInt), Field("m", Mat(3)) >>

\* the field lists of the record types: runs of the pool of at most MaxFields
FieldLists ==
  { SubSeq(FieldPool, r[1], r[1] + r[2] - 1) :
      r \in { q \in (1..Len(FieldPool)) \X (0..MaxFields) :
                q[1] + q[2] - 1 <= Len(FieldPool) } }

VarTypes ==
  { PrimInt, PrimAlloc, PtrInt, Mat(2), Mat(3), Mat(4), Vec, Arr,
    Rec("Point", << Field("x", PrimInt) >>) }

NameAt(prefix, i) == prefix \o UDigits(i)

\* an RSExportVar: getName(), getType()
ExportVar(i, t) == [name |-> NameAt("var", i), type |-> t]

\* the exported types a registry may hold at enumeration position i
TypeChoices(i) ==
  { Rec(NameAt("Rec", i), fs) : fs \in FieldLists }
  \cup { PrimInt, PtrInt, Vec }

--------------------------------------------------------------------------
(* The export registry: exported functions, and the native functions that *)
(* code generation left in the module for them                            *)

LType(p, es) == [ptr |-> p, elems |-> es]
Scalar(n) == LType(FALSE, << n >>)
\* llvm::PointerType::getUnqual(llvm::StructType::get(ctx, tys))
PointerToStruct(tys) == LType(TRUE, [j \in 1..Len(tys) |-> tys[j].elems[1]])

NoBody == [base |-> "", loads |-> << >>, callee |-> "", args |-> << >>,
           callcc |-> "", ret |-> ""]

LFunction(r, c, as, ni, b) ==
  [ret |-> r, cc |-> c, args |-> as, linkage |-> "external", noinline |-> ni,
   body |-> b]

ParamPoolA == << "i32", "float", "i64", "double" >>
ParamPoolB == << "i64", "float", "i32", "i8" >>
RetCC == { [ret |-> "void", cc |-> "ccc"], [ret |-> "i32", cc |-> "arm_aapcscc"] }

Native(pool, k, rc) ==
  << LFunction(rc.ret, rc.cc, [j \in 1..k |-> Scalar(pool[j])], FALSE, NoBody) >>

\* an exported function as the registry sees it (n parameters), paired with
\* the native function of the module: none, one with the same parameters
\* (under either return type and calling convention), one whose argument
\* list code generation lowered to k arguments, or one with n arguments of
\* other types
FuncShapes ==
  { [params |-> << >>, native |-> Native(ParamPoolA, 0, [ret |-> "void", cc |-> "ccc"])] }
  \cup UNION { { [params |-> SubSeq(ParamPoolA, 1, n), native |-> << >>] }
               \cup { [params |-> SubSeq(ParamPoolA, 1, n), native |-> Native(ParamPoolA, n, rc)] :
                        rc \in RetCC }
               \cup { [params |-> SubSeq(ParamPoolA, 1, n),
                       native |-> Native(ParamPoolA, k, [ret |-> "void", cc |-> "ccc"])] :
                        k \in 0..MaxParams }
               \cup { [params |-> SubSeq(ParamPoolA, 1, n),
                       native |-> Native(ParamPoolB, n, [ret |-> "i32", cc |-> "arm_aapcscc"])] }
               : n \in 1..MaxParams }

\* an RSExportFunc: getName(), hasParam(), getNumParameters(), and the types
\* of its parameter packet
ExportFunc(i, sh) == [name |-> NameAt("fn", i), params |-> sh.params]

hasParam(EF) == Len(EF.params) > 0
getNumParameters(EF) == Len(EF.params)

\* RSExportForEach::getMetadataEncoding() values
Encodings == { 0, 31 }

--------------------------------------------------------------------------
(* llvm::Module as the output sink *)

\* the names of slang_rs_metadata.h
RS_EXPORT_VAR_MN == "#rs_export_var"
RS_EXPORT_FUNC_MN == "#rs_export_func"
RS_EXPORT_FOREACH_MN == "#rs_export_foreach"
RS_EXPORT_TYPE_MN == "#rs_export_type"
RS_OBJECT_SLOTS_MN == "#rs_object_slots"

\* a NULL llvm::NamedMDNode*
NullMD == ""

\* the module and the members of RSBackend that HandleTranslationUnitPost
\* reads and writes
ModuleState ==
  [md |-> namedMD, fn |-> functions, h |-> handles, errs |-> errs,
   aborted |-> aborted]

\* M->getOrInsertNamedMetadata(name)
getOrInsertNamedMetadata(ms, name) ==
  IF name \in DOMAIN ms.md THEN ms
  ELSE [ms EXCEPT !.md = ms.md @@ (name :> << >>)]

\* list->addOperand(llvm::MDNode::get(ctx, info))
addOperand(ms, name, info) == [ms EXCEPT !.md[name] = Append(@, info)]

\* if (handle == NULL) handle = M->getOrInsertNamedMetadata(name)
Cached(ms, which, name) ==
  IF ms.h[which] = NullMD
  THEN [getOrInsertNamedMetadata(ms, name) EXCEPT !.h[which] = name]
  ELSE ms

\* a failed slangAssert, or a crash
Abort(ms) == [ms EXCEPT !.aborted = TRUE]

\* the name a value gets in the module's symbol table: the requested one, or
\* the requested one with the first free numeric suffix when it is taken
UniqueName(fn, name) ==
  IF name \notin DOMAIN fn THEN name
  ELSE LET k == CHOOSE k \in 1..(Cardinality(DOMAIN fn) + 1) :
                  /\ (name \o UDigits(k)) \notin DOMAIN fn
                  /\ \A j \in 1..(k - 1) : (name \o UDigits(j)) \in DOMAIN fn
       IN name \o UDigits(k)

--------------------------------------------------------------------------
(* HandleTranslationUnitPost: exported variables *)

\* the switch on ET->getClass(): what is pushed after the variable's name
VarTypeInfo(ET) ==
  CASE ET.class = "Primitive" -> << utostr_32(ET.type) >>
    [] ET.class = "Pointer" -> << "*" \o ET.pointee >>
    [] ET.class = "Matrix" -> << utostr_32(DataTypeRSMatrix2x2 + ET.dim - 2) >>
    [] ET.class \in { "Vector", "ConstantArray", "Record" } -> << ET.name >>
    [] OTHER -> << >>

\* countsAsRSObject: set only in the Primitive case, by PT->isRSObjectType()
countsAsRSObject(ET) == ET.class = "Primitive" /\ ET.isRSObject

\* slotCount++ at the end of every iteration
NextSlotOnlyObjects(slotCount, counts) == IF counts THEN slotCount + 1 ELSE slotCount
NextSlot(slotCount, counts) == slotCount + 1

\* ExportVarInfo.clear() after the node is made
KeepInfo(info) == info
ClearInfo(info) == << >>

\* the loop over the exported variables; info is the ExportVarInfo vector
RECURSIVE ExportVarLoop(_, _, _, _)
ExportVarLoop(ms, i, slotCount, info) ==
  IF i > Len(export_vars) THEN ms
  ELSE LET EV == export_vars[i]
           ET == EV.type
           info1 == Append(info, EV.name) \o VarTypeInfo(ET)
           ms1 == addOperand(ms, ms.h.var, info1)
           ms2 == Cached(ms1, "slots", RS_OBJECT_SLOTS_MN)
           ms3 == IF countsAsRSObject(ET)
                  THEN addOperand(ms2, ms2.h.slots, << utostr_32(slotCount) >>)
                  ELSE ms2
       IN ExportVarLoop(ms3, i + 1, NextSlot(slotCount, countsAsRSObject(ET)),
                        ClearInfo(info1))

\* if (mContext->hasExportVar()) { ... }
DumpExportVars(ms) ==
  IF export_vars = << >> THEN ms
  ELSE ExportVarLoop(Cached(ms, "var", RS_EXPORT_VAR_MN), 1, 0, << >>)

--------------------------------------------------------------------------
(* HandleTranslationUnitPost: exported functions and their helper functions *)

\* RSExportFunc::checkParameterPacketType: the packed record built from the
\* native function's arguments against the parameter packet of the registry;
\* tys is << >> for a NULL HelperFunctionParameterTy
checkParameterPacketType(EF, tys) ==
  IF tys = << >> THEN ~hasParam(EF)
  ELSE /\ hasParam(EF)
       /\ Len(tys) = Len(EF.params)
       /\ \A j \in 1..Len(tys) : tys[j].elems[1] = EF.params[j]

MismatchReport(EF) == "Failed to export function " \o EF.name

\* the loop over EF->getNumParameters(): the GEP index of the i-th load
HelperLoads(n) == [j \in 1..n |-> j - 1]

\* the body of the helper function: one GEP and load per parameter of EF,
\* the call of F with the loaded values, and the return
HelperBody(EF, F, Params) ==
  [base   |-> IF Params # << >> THEN "arg0" ELSE "undef",
   loads  |-> HelperLoads(getNumParameters(EF)),
   callee |-> EF.name,
   args   |-> [j \in 1..getNumParameters(EF) |-> j],
   callcc |-> F.cc,
   ret    |-> IF F.ret = "void" THEN "void" ELSE "call"]

\* the body is built without undefined behaviour when the helper function has
\* its argument and every index and the call fit the native function
HelperWellFormed(EF, F, Params) ==
  Params # << >> /\ getNumParameters(EF) = Len(F.args)

\* the else branch of "if (!EF->hasParam())": ub is what the build does when
\* the body cannot be built as the code assumes ("crash" or "proceed");
\* the result is the module state and the name pushed to ExportFuncInfo
CreateHelperFunction(ms, EF, ub) ==
  LET F == ms.fn[EF.name]
      HelperFunctionName == ".helper_" \o EF.name
      HelperFunctionParameterTys == F.args
      report == ~checkParameterPacketType(EF, HelperFunctionParameterTys)
      ms1 == IF report THEN [ms EXCEPT !.errs = Append(@, MismatchReport(EF))] ELSE ms
      Params == IF HelperFunctionParameterTys # << >>
                THEN << PointerToStruct(HelperFunctionParameterTys) >> ELSE << >>
      actual == UniqueName(ms1.fn, HelperFunctionName)
      declared == LFunction(F.ret, F.cc, Params, TRUE, NoBody)
      defined == [declared EXCEPT !.body = HelperBody(EF, F, Params)]
  IN IF ~HelperWellFormed(EF, F, Params) /\ ub = "crash"
     THEN Abort([ms1 EXCEPT !.fn = ms1.fn @@ (actual :> declared)])
     ELSE [ms1 EXCEPT !.fn = ms1.fn @@ (actual :> defined)]

\* the name pushed to ExportFuncInfo
FuncDescriptor(EF) ==
  IF ~hasParam(EF) THEN EF.name ELSE ".helper_" \o EF.name

RECURSIVE ExportFuncLoop(_, _, _)
ExportFuncLoop(ms, i, ub) ==
  IF i > Len(export_funcs) \/ ms.aborted THEN ms
  ELSE LET EF == export_funcs[i]
           ms1 == IF ~hasParam(EF) THEN ms
                  ELSE IF EF.name \notin DOMAIN ms.fn THEN Abort(ms)
                  ELSE CreateHelperFunction(ms, EF, ub)
           ms2 == IF ms1.aborted THEN ms1
                  ELSE addOperand(ms1, ms1.h.func, << FuncDescriptor(EF) >>)
       IN ExportFuncLoop(ms2, i + 1, ub)

\* if (mContext->hasExportFunc()) { ... }
DumpExportFuncs(ms, ub) ==
  IF export_funcs = << >> THEN ms
  ELSE ExportFuncLoop(Cached(ms, "func", RS_EXPORT_FUNC_MN), 1, ub)

--------------------------------------------------------------------------
(* HandleTranslationUnitPost: exported kernels *)

RECURSIVE ExportForEachLoop(_, _)
ExportForEachLoop(ms, i) ==
  IF i > Len(export_foreach) THEN ms
  ELSE ExportForEachLoop(
         addOperand(ms, ms.h.foreach, << utostr_32(export_foreach[i]) >>), i + 1)

\* if (mContext->hasExportForEach()) { ... }
DumpExportForEach(ms) ==
  IF export_foreach = << >> THEN ms
  ELSE ExportForEachLoop(Cached(ms, "foreach", RS_EXPORT_FOREACH_MN), 1)

--------------------------------------------------------------------------
(* HandleTranslationUnitPost: exported types *)

\* the switch on F->getType()->getClass(): the third field of a field record
FieldKindAlwaysUser(FT) == itostr(DataKindUser)
FieldKind(FT) ==
  IF FT.class \in { "Primitive", "Vector" } THEN itostr(FT.kind)
  ELSE itostr(DataKindUser)

RECURSIVE FieldLoop(_, _, _, _)
FieldLoop(ms, mdName, fields, i) ==
  IF i > Len(fields) THEN ms
  ELSE LET F == fields[i]
           FieldInfo == << F.name, F.type.name, FieldKind(F.type) >>
       IN FieldLoop(addOperand(ms, mdName, FieldInfo), mdName, fields, i + 1)

\* the condition under which ExportTypeInfo is added to #rs_export_type and
\* the per-type list is made
EmitsTypeAlways(ET) == TRUE
EmitsType(ET) == ET.class = "Record"

\* slangAssert(StructInfoMetadata->getNumOperands() == 0 && ...)
StructInfoFresh(ms, mdName) == Len(ms.md[mdName]) = 0

\* one iteration of the loop over the exported types
ExportTypeStep(ms, ET) ==
  IF ~EmitsType(ET) THEN ms
  ELSE LET ExportTypeInfo == << ET.name >>
           ms0 == Cached(ms, "type", RS_EXPORT_TYPE_MN)
           ms1 == addOperand(ms0, ms0.h.type, ExportTypeInfo)
           StructInfoMetadataName == "%" \o ET.name
           ms2 == getOrInsertNamedMetadata(ms1, StructInfoMetadataName)
       IN IF ~StructInfoFresh(ms2, StructInfoMetadataName) THEN Abort(ms2)
          ELSE FieldLoop(ms2, StructInfoMetadataName, ET.fields, 1)

RECURSIVE ExportTypeLoop(_, _)
ExportTypeLoop(ms, i) ==
  IF i > Len(export_types) \/ ms.aborted THEN ms
  ELSE ExportTypeLoop(ExportTypeStep(ms, export_types[i]), i + 1)

\* if (mContext->hasExportType()) { ... }
DumpExportTypes(ms) ==
  IF export_types = << >> THEN ms ELSE ExportTypeLoop(ms, 1)

--------------------------------------------------------------------------
(* RSBackend::HandleTranslationUnitPost *)

TranslationUnitPost(ms, ub) ==
  IF ~processExport THEN ms
  ELSE LET a == DumpExportVars(ms)
           b == DumpExportFuncs(a, ub)
           c == IF b.aborted THEN b ELSE DumpExportForEach(b)
       IN IF c.aborted THEN c ELSE DumpExportTypes(c)

HandleTranslationUnitPost(ub) ==
  /\ phase \in { "parsed", "emitted" }
  /\ ~aborted
  /\ postRuns < MaxPostRuns
  /\ LET ms == TranslationUnitPost(ModuleState, ub) IN
       /\ namedMD' = ms.md
       /\ functions' = ms.fn
       /\ handles' = ms.h
       /\ errs' = ms.errs
       /\ aborted' = ms.aborted
  /\ phase' = "emitted"
  /\ postRuns' = postRuns + 1
  /\ UNCHANGED << mAllowRSPrefix, version, processExport, frontVars, registryVars >>

--------------------------------------------------------------------------
(* The state after construction, and the specifications *)

NullHandles ==
  [var |-> NullMD, func |-> NullMD, foreach |-> NullMD, type |-> NullMD,
   slots |-> NullMD]

\* the native functions of the module: one per exported function that code
\* generation kept
NativeFunctions(shapes) ==
  LET kept == { i \in 1..Len(shapes) : shapes[i].native # << >> }
  IN [nm \in { NameAt("fn", i) : i \in kept } |->
        LET i == CHOOSE i \in kept : NameAt("fn", i) = nm IN shapes[i].native[1]]

InitBackend ==
  /\ phase = "parsing"
  /\ tuDecls = << >>
  /\ diags = << >>
  /\ visited = << >>
  /\ codegen = << >>
  /\ namedMD = << >>
  /\ handles = NullHandles
  /\ errs = << >>
  /\ aborted = FALSE
  /\ postRuns = 0

InitRegistry(vs, shapes, es, ts) ==
  /\ export_vars = [i \in 1..Len(vs) |-> ExportVar(i, vs[i])]
  /\ export_funcs = [i \in 1..Len(shapes) |-> ExportFunc(i, shapes[i])]
  /\ export_foreach = es
  /\ export_types = ts
  /\ functions = NativeFunctions(shapes)

\* the unit of the scenarios: int and rs_allocation globals, bar(int, float),
\* init(), one kernel and one record type
SampleVars == << PrimInt, PrimAlloc >>
SampleFuncs ==
  << [params |-> SubSeq(ParamPoolA, 1, 2),
      native |-> Native(ParamPoolA, 2, [ret |-> "void", cc |-> "ccc"])],
     [params |-> << >>,
      native |-> Native(ParamPoolA, 0, [ret |-> "void", cc |-> "ccc"])] >>
SampleTypes == << Rec("Rec1", SubSeq(FieldPool, 1, 2)), PrimInt >>

Init ==
  /\ InitBackend
  /\ mAllowRSPrefix \in BOOLEAN
  /\ version \in { 0, 1, 2 }
  /\ processExport \in BOOLEAN
  /\ InitRegistry(SampleVars, SampleFuncs, << 31 >>, SampleTypes)

\* the whole pass, over units made of a valid global, a global of an
\* unexportable type, a file-local function and an "rs" function
UnitDecls ==
  { VarDecl("g", TRUE, TRUE, TRUE), VarDecl("g", TRUE, FALSE, TRUE),
    FuncDecl("foo", FALSE, TRUE, FALSE), FuncDecl("rsFoo", TRUE, TRUE, FALSE) }

Next ==
  \/ /\ phase = "parsing"
     /\ \E D \in DeclGroups(UnitDecls, MaxDecls - Len(tuDecls)) : HandleTopLevelDecl(D)
  \/ \E dtor \in DtorChoices : HandleTranslationUnitPre(dtor)
  \/ \E ub \in { "crash", "proceed" } : HandleTranslationUnitPost(ub)

Spec == Init /\ [][Next]_vars

\* the front end alone (declaration guard and unit validator), over every
\* unit within the bounds
NextFront ==
  \/ /\ phase = "parsing"
     /\ \E D \in DeclGroups(Decls, MaxDecls - Len(tuDecls)) : HandleTopLevelDecl(D)
  \/ \E dtor \in DtorChoices : HandleTranslationUnitPre(dtor)

InitFront ==
  /\ InitBackend
  /\ mAllowRSPrefix \in BOOLEAN
  /\ version \in { 0, 1, 2 }
  /\ processExport = TRUE
  /\ InitRegistry(SampleVars, SampleFuncs, << 31 >>, SampleTypes)

SpecFront == InitFront /\ [][NextFront]_vars

\* the registries of at most MaxExports entries; exported types are
\* enumerated from a map keyed by name, so their names differ
TypeSeqs(n) ==
  { ts \in [1..n -> UNION { TypeChoices(i) : i \in 1..n }] :
      /\ \A i \in 1..n : ts[i] \in TypeChoices(i)
      /\ \A i, j \in 1..n : i # j => ts[i].name # ts[j].name }

\* the emitter alone, on the module of a unit whose front end reported
\* nothing, over every registry within the bounds
InitExport ==
  /\ InitBackend
  /\ mAllowRSPrefix = FALSE
  /\ version = 1
  /\ \E nv \in 0..MaxExports, nf \in 0..MaxExports, ne \in 0..MaxExports,
        nt \in 0..MaxExports :
       /\ nv + nf + ne + nt <= MaxExports
       /\ \E vs \in [1..nv -> VarTypes], shapes \in [1..nf -> FuncShapes],
             es \in [1..ne -> Encodings], ts \in TypeSeqs(nt) :
            InitRegistry(vs, shapes, es, ts)
  /\ processExport \in BOOLEAN

NextExport ==
  \/ \E dtor \in { << >> } : HandleTranslationUnitPre(dtor)
  \/ \E ub \in { "crash", "proceed" } : HandleTranslationUnitPost(ub)

SpecExport == InitExport /\ [][NextExport]_vars

--------------------------------------------------------------------------
(* Reading the output back: what a consumer of the metadata sees *)

\* the named list, empty when the module has none of that name
MD(name) == IF name \in DOMAIN namedMD THEN namedMD[name] ELSE << >>

DecimalDigits == { "0", "1", "2", "3", "4", "5", "6", "7", "8", "9" }

IsDecimal(s) ==
  /\ Len(s) >= 1
  /\ \A i \in 1..Len(s) : SubSeq(s, i, i) \in DecimalDigits
  /\ Len(s) > 1 => SubSeq(s, 1, 1) # "0"

DigitValue(c) ==
  CASE c = "0" -> 0 [] c = "1" -> 1 [] c = "2" -> 2 [] c = "3" -> 3 [] c = "4" -> 4
    [] c = "5" -> 5 [] c = "6" -> 6 [] c = "7" -> 7 [] c = "8" -> 8 [] c = "9" -> 9

RECURSIVE DecimalValue(_)
DecimalValue(s) ==
  IF Len(s) = 0 THEN 0
  ELSE 10 * DecimalValue(SubSeq(s, 1, Len(s) - 1)) + DigitValue(SubSeq(s, Len(s), Len(s)))

\* s is the decimal numeral of n
IsNumeral(s, n) == IsDecimal(s) /\ DecimalValue(s) = n

\* the first call of HandleTranslationUnitPost has returned and emitted
FirstEmission == postRuns = 1 /\ processExport
FirstEmissionDone == FirstEmission /\ ~aborted

IsRecordType(t) == t.class = "Record"
IsManaged(t) == t.class = "Primitive" /\ t.isRSObject

--------------------------------------------------------------------------
(* C1 *)

HelperName(EF) == ".helper_" \o EF.name

\* C1: after HandleTranslationUnitPost with processExport, the k-th record of
\* #rs_export_func is the function's own name when it has no parameter and
\* ".helper_" + name otherwise, and in the latter case the module holds a
\* function of that name taking exactly one argument, a pointer to the packed
\* record, whatever checkParameterPacketType reported.
C1_DescriptorNamesCallable ==
  FirstEmissionDone =>
    LET l == MD(RS_EXPORT_FUNC_MN) IN
      /\ Len(l) = Len(export_funcs)
      /\ \A k \in 1..Len(export_funcs) :
           LET EF == export_funcs[k] IN
             IF Len(EF.params) = 0
             THEN l[k] = << EF.name >>
             ELSE /\ l[k] = << HelperName(EF) >>
                  /\ HelperName(EF) \in DOMAIN functions
                  /\ Len(functions[HelperName(EF)].args) = 1
                  /\ functions[HelperName(EF)].args[1].ptr

--------------------------------------------------------------------------
(* C2 *)

ManagedPositions ==
  { i \in 0..(Len(export_vars) - 1) : IsManaged(export_vars[i + 1].type) }

--------------------------------------------------------------------------
(* C3 *)

\* e is the encoding the consumer expects for a variable of type t
EncodingOf(t, e) ==
  CASE t.class = "Primitive" -> IsNumeral(e, t.type)
    [] t.class = "Pointer" ->
         /\ Len(e) = 1 + Len(t.pointee)
         /\ SubSeq(e, 1, 1) = "*"
         /\ SubSeq(e, 2, Len(e)) = t.pointee
    [] t.class = "Matrix" -> IsNumeral(e, DataTypeRSMatrix2x2 + t.dim - 2)
    [] OTHER -> e = t.name

\* C3: after HandleTranslationUnitPost with processExport, #rs_export_var holds
\* exactly one record per exported variable, in enumeration order, each exactly
\* (name, encoding), the encoding chosen by the classification of the type.
C3_ExportVarRecords ==
  FirstEmission =>
    LET l == MD(RS_EXPORT_VAR_MN) IN
      /\ Len(l) = Len(export_vars)
      /\ \A i \in 1..Len(export_vars) :
           /\ Len(l[i]) = 2
           /\ l[i][1] = export_vars[i].name
           /\ EncodingOf(export_vars[i].type, l[i][2])

C3_Witness ==
  /\ FirstEmission
  /\ Len(export_vars) = 2
  /\ export_vars[1].type.class = "Matrix"
  /\ export_vars[2].type.class = "Pointer"
  /\ MD(RS_EXPORT_VAR_MN) = << << "var1", "17" >>, << "var2", "*int" >> >>

--------------------------------------------------------------------------
(* C4 *)

\* C4: the helper function of an exported function with parameters loads
\* field i of the packed record for every parameter position i of the native
\* function, ascending from 0, calls the native function with exactly those
\* values under its calling convention, and returns void or the call's result
\* as the native function does.
C4_HelperBody ==
  FirstEmissionDone =>
    \A k \in 1..Len(export_funcs) :
      LET EF == export_funcs[k] IN
        Len(EF.params) > 0 =>
          LET F == functions[EF.name]
              H == functions[HelperName(EF)]
          IN /\ H.body.base = "arg0"
             /\ H.body.loads = [j \in 1..Len(F.args) |-> j - 1]
             /\ H.body.callee = EF.name
             /\ H.body.args = [j \in 1..Len(F.args) |-> j]
             /\ H.body.callcc = F.cc
             /\ H.body.ret = (IF F.ret = "void" THEN "void" ELSE "call")

--------------------------------------------------------------------------
(* C5 *)

RecordTypes == SelectSeq(export_types, IsRecordType)

\* the kind code the consumer expects for a field of type t
KindCodeOf(t) ==
  IF t.class \in { "Primitive", "Vector" } THEN t.kind ELSE DataKindUser

\* C5: after HandleTranslationUnitPost with processExport, #rs_export_type
\* holds one record (the name) per exported Record type, in enumeration order,
\* and the list "%" + name holds one (field name, field type name, kind code)
\* per field in field order, the kind code being the field type's own kind
\* for Primitive and Vector fields and DataKindUser otherwise.
C5_RecordTypeLists ==
  FirstEmissionDone =>
    /\ MD(RS_EXPORT_TYPE_MN) = [i \in 1..Len(RecordTypes) |-> << RecordTypes[i].name >>]
    /\ \A i \in 1..Len(RecordTypes) :
         LET t == RecordTypes[i]
             l == MD("%" \o t.name)
         IN /\ ("%" \o t.name) \in DOMAIN namedMD
            /\ Len(l) = Len(t.fields)
            /\ \A j \in 1..Len(t.fields) :
                 /\ Len(l[j]) = 3
                 /\ l[j][1] = t.fields[j].name
                 /\ l[j][2] = t.fields[j].type.name
                 /\ IsNumeral(l[j][3], KindCodeOf(t.fields[j].type))

C5_Witness ==
  /\ FirstEmissionDone
  /\ Len(export_types) = 2
  /\ IsRecordType(export_types[2])
  /\ MD(RS_EXPORT_TYPE_MN) = << << "Rec2" >> >>
  /\ MD("%Rec2") = << << "c", "uchar4", "5" >>, << "next", "int_ptr", "0" >> >>

--------------------------------------------------------------------------
(* C8 *)

\* C8: a Record type whose list "%" + name was already made in the module is
\* rejected when the emitter reaches it again, whatever its number of fields:
\* a second emission over a registry with a Record type ends in the failed
\* invariant check.
C8_SecondEmissionRejected ==
  (postRuns >= 2 /\ processExport /\ Len(RecordTypes) > 0) => aborted

\* what the code does guarantee: the second emission is rejected when the
\* first Record type it reaches has a field
C8_RejectedWhenFirstRecordHasFields ==
  (postRuns >= 2 /\ processExport /\ Len(RecordTypes) > 0
     /\ Len(RecordTypes[1].fields) > 0) => aborted

--------------------------------------------------------------------------
(* C10 *)

NodesOf(l) == { l[i] : i \in 1..Len(l) }

\* C10 as stated: for every exported type that is not a Record, the emitter
\* emits the type's name descriptor and makes no per-type field list.
C10_NonRecordNameEmitted ==
  FirstEmissionDone =>
    \A i \in 1..Len(export_types) :
      ~IsRecordType(export_types[i]) =>
        /\ << export_types[i].name >> \in NodesOf(MD(RS_EXPORT_TYPE_MN))
        /\ ("%" \o export_types[i].name) \notin DOMAIN namedMD

\* C10 as amended: for every exported type that is not a Record, the emitter
\* emits nothing: no record of #rs_export_type names it and no per-type field
\* list is made for it; #rs_export_type holds the Record types only.
C10_NonRecordSkipped ==
  FirstEmissionDone =>
    /\ Len(MD(RS_EXPORT_TYPE_MN)) = Len(RecordTypes)
    /\ \A i \in 1..Len(export_types) :
         ~IsRecordType(export_types[i]) =>
           /\ << export_types[i].name >> \notin NodesOf(MD(RS_EXPORT_TYPE_MN))
           /\ ("%" \o export_types[i].name) \notin DOMAIN namedMD

C10_Witness ==
  /\ FirstEmissionDone
  /\ Len(export_types) = 2
  /\ ~IsRecordType(export_types[1])
  /\ IsRecordType(export_types[2])
  /\ Len(MD(RS_EXPORT_TYPE_MN)) = 1

--------------------------------------------------------------------------
(* Reading the front end's logs *)

IsMissingVersion(d) == d.kind = "missing-version"
IsNamingConflict(d) == d.kind = "rs-prefix"
IsGlobalFunction(d) == d.kind = "Function" /\ d.isGlobal
IsLocalFunction(d) == d.kind = "Function" /\ ~d.isGlobal
HasUserBody(d) == d.hasBody /\ ~d.inRSHeader
IsLocalFunctionWithUserBody(d) == IsLocalFunction(d) /\ HasUserBody(d)
IsGlobalFunctionWithUserBody(d) == IsGlobalFunction(d) /\ HasUserBody(d)

\* a function declaration whose name starts with "rs" and that is not from
\* the system header
Offends(d) ==
  /\ d.kind = "Function"
  /\ Len(d.name) >= 2
  /\ SubSeq(d.name, 1, 2) = "rs"
  /\ ~d.inRSHeader

NamesOf(ds) == [i \in 1..Len(ds) |-> ds[i].name]

\* some global variable declaration of the unit fails validation
SomeGlobalInvalid ==
  \E i \in 1..Len(tuDecls) :
    /\ tuDecls[i].kind = "Var"
    /\ \/ tuDecls[i].externalLinkage /\ ~tuDecls[i].normalizeOK
       \/ ~tuDecls[i].exportValid

\* the declarations handed to HandleTopLevelDecl so far, group after group
Forwarded == Flatten(codegen)

--------------------------------------------------------------------------
(* C6 *)

MissingVersionCount == Len(SelectSeq(diags, IsMissingVersion))

\* the export lists of the unit's registry are in the module
Emitted ==
  /\ Len(MD(RS_EXPORT_VAR_MN)) = Len(export_vars)
  /\ Len(MD(RS_EXPORT_FUNC_MN)) = Len(export_funcs)
  /\ Len(MD(RS_EXPORT_FOREACH_MN)) = Len(export_foreach)
  /\ Len(MD(RS_EXPORT_TYPE_MN)) = Len(RecordTypes)

EmissionGatedByFlagOnly ==
  postRuns = 1 => IF processExport THEN Emitted ELSE namedMD = << >>

\* C6 as stated: for every unit whose version is 0, HandleTranslationUnitPre
\* reports the missing-version error exactly once, whatever else the unit
\* declares, and the later emission is gated by processExport only.
C6_MissingVersionAlways ==
  /\ (phase # "parsing" /\ version = 0) => MissingVersionCount = 1
  /\ EmissionGatedByFlagOnly

\* C6 as amended: HandleTranslationUnitPre reports the missing-version error
\* exactly once when the version is 0 and every global variable validates, and
\* not at all otherwise (a failed validation returns before the version is
\* read); the later emission is gated by processExport only, whatever was
\* reported.
C6_MissingVersionWhenValid ==
  /\ phase # "parsing" =>
       MissingVersionCount = (IF version = 0 /\ ~SomeGlobalInvalid THEN 1 ELSE 0)
  /\ phase = "parsing" => MissingVersionCount = 0
  /\ EmissionGatedByFlagOnly

C6_Witness ==
  /\ postRuns = 1
  /\ version = 0
  /\ processExport
  /\ MissingVersionCount = 1
  /\ Len(tuDecls) > 0
  /\ Emitted
  /\ Len(MD(RS_EXPORT_VAR_MN)) = 2

--------------------------------------------------------------------------
(* C7 *)

\* the naming-conflict errors HandleTopLevelDecl owes a group
OwedConflicts(D) ==
  IF mAllowRSPrefix THEN << >> ELSE NamesOf(SelectSeq(D, Offends))

\* C7: for every group passed to HandleTopLevelDecl, exactly one
\* naming-conflict error is reported for each function declaration of the
\* group whose name starts with "rs", under enforcement, outside the system
\* header, and none for any other declaration; the remaining declarations are
\* still checked, the externally linked functions (with a body outside the
\* system header) are still annotated, and the whole group is forwarded to
\* code generation.
C7_NamingConflicts ==
  /\ NamesOf(SelectSeq(diags, IsNamingConflict))
       = Flatten([g \in 1..Len(codegen) |-> OwedConflicts(codegen[g])])
  /\ SelectSeq(visited, IsGlobalFunction)
       = SelectSeq(Forwarded, IsGlobalFunctionWithUserBody)
  /\ IsPrefixOf(tuDecls, Forwarded)
  /\ Len(Forwarded) <= Len(tuDecls) + 1
  /\ phase = "parsing" => Forwarded = tuDecls

C7_Witness ==
  /\ ~mAllowRSPrefix
  /\ Len(codegen) = 1
  /\ Len(codegen[1]) = 2
  /\ Offends(codegen[1][1])
  /\ Offends(codegen[1][2])
  /\ IsGlobalFunctionWithUserBody(codegen[1][2])
  /\ Len(diags) = 2
  /\ codegen[1][2] \in { visited[i] : i \in 1..Len(visited) }

--------------------------------------------------------------------------
(* C9 *)

LocalFunctionsVisited == SelectSeq(visited, IsLocalFunction)

\* C9 as stated: when a global variable fails validation,
\* HandleTranslationUnitPre still annotates every file-local function of the
\* unit that has a body outside the system header.
C9_LocalFunctionsAlwaysAnnotated ==
  (phase = "parsed" /\ SomeGlobalInvalid) =>
    LocalFunctionsVisited = SelectSeq(tuDecls, IsLocalFunctionWithUserBody)

\* C9 as amended: when a global variable fails validation,
\* HandleTranslationUnitPre returns at once: it reports no version error, hands
\* no cleanup function to HandleTopLevelDecl and annotates no file-local
\* function; when every global validates, each file-local function with a body
\* outside the system header is annotated once, in declaration order.
C9_InvalidUnitSkipsAnnotation ==
  /\ phase = "parsing" => LocalFunctionsVisited = << >>
  /\ phase = "parsed" =>
       IF SomeGlobalInvalid
       THEN /\ LocalFunctionsVisited = << >>
            /\ SelectSeq(diags, IsNamingConflict) = diags
            /\ Forwarded = tuDecls
       ELSE LocalFunctionsVisited = SelectSeq(tuDecls, IsLocalFunctionWithUserBody)

C9_Witness ==
  /\ phase = "parsed"
  /\ SomeGlobalInvalid
  /\ \E i \in 1..Len(tuDecls) : IsLocalFunctionWithUserBody(tuDecls[i])
  /\ LocalFunctionsVisited = << >>

==========================================================================
